---- MODULE Spec2Model ----
(***************************************************************************)
(* Verification model of the flaw scenarios of project_anarchy.            *)
(*                                                                         *)
(* Each scenario of the corpus is an independent program; each one gets    *)
(* its own specification over the shared variable tuple `vars`, leaving    *)
(* the other scenarios' variables untouched:                               *)
(*   SpecDeadlock  flow_analysis/deadlock.py  create_deadlock              *)
(*   SpecCredit    api/auth_service.py        use_credit                   *)
(*   SpecLeak      flow_analysis/resource_leak.py  leaky_function          *)
(*   SpecRace      tests/test_rca_scenarios.py     test_race_condition     *)
(*   SpecDiscount  api/final_coverage_completion.py  calculate_discount    *)
(*   SpecManager   api/final_coverage_completion.py  ResourceManager       *)
(*   SpecCritical  graph_nightmares/hotspots/critical.py                   *)
(*   SpecSpaghetti graph_nightmares/spaghetti      test_functions          *)
(*   SpecTiming    security/security_holes.py  timing_attack_vulnerable    *)
(*   SpecBank      flow_analysis/deadlock.py   BankAccount.transfer_to     *)
(*   SpecFinancial api/final_coverage_completion.py  FinancialService      *)
(*   SpecEnrich    python_pipeline/processing/tasks.py  enrich_user_data   *)
(***************************************************************************)
EXTENDS Integers, Naturals, Sequences, FiniteSets, TLC

VARIABLES
    \* ---- flow_analysis/deadlock.py ----
    lock_a,        \* holder of threading.Lock lock_a: "free" or a thread name
    lock_b,        \* holder of threading.Lock lock_b
    resource_a,    \* resource_a['value']
    resource_b,    \* resource_b['value']
    tpc,           \* position of Thread-1 / Thread-2 in its thread function
    mainpc,        \* position of the caller inside create_deadlock
    dl_result,     \* return value of create_deadlock ("none" until it returns)
    \* ---- api/auth_service.py ----
    USER_CREDITS,  \* the module-level dict, username -> credits
    cpc,           \* position of each concurrent use_credit call
    carg,          \* the username argument of each call
    ctmp,          \* value loaded by `USER_CREDITS[username] -= 1` before the store
    cret,          \* return value of each call ("none" until it returns)
    credits0,      \* USER_CREDITS["test_user"] when the calls started
    \* ---- flow_analysis/resource_leak.py ----
    condition,     \* the module-level flag `condition`
    fpc,           \* position inside leaky_function
    fname,         \* the filename argument of the running call
    fhandle,       \* index in `handles` of the local f (0: none)
    handles,       \* every handle opened so far: [file, open, pos]
    fdata,         \* number of characters held by the local `data`
    fexit,         \* how the last call left the function
    ncalls,        \* calls of leaky_function made so far
    \* ---- tests/test_rca_scenarios.py: test_race_condition ----
    shared_list,   \* the list shared by the threads
    rpc,           \* position of each thread inside append_to_list
    current_length,\* each thread's local current_length
    rmain,         \* position of the test function
    nstarted,      \* threads created and started so far
    njoined,       \* threads joined so far
    \* ---- api/final_coverage_completion.py: DataValidator ----
    price,         \* argument price, a float
    discount_percent, \* argument discount_percent, an int
    dpc,           \* "call" before calculate_discount ran, "returned" after
    dresult,       \* the float it returned
    \* ---- api/final_coverage_completion.py: ResourceManager ----
    resource_lock, \* self.resource_lock: TRUE while the Lock is held
    file_handles,  \* self.file_handles: path -> handle number
    existing,      \* paths that name a readable file
    nopened,       \* handles opened so far (none is ever closed)
    mth,           \* per thread: position, method, file_paths, loop index, calls finished
    \* ---- graph_nightmares/hotspots/critical.py ----
    GLOBAL_CONFIG, \* the module-level dict GLOBAL_CONFIG (keys debug, timeout)
    GLOBAL_CACHE,  \* the module-level dict GLOBAL_CACHE
    GLOBAL_COUNTER,\* the module-level int GLOBAL_COUNTER
    gout,          \* the last call of a module function and how it ended
    calls_since_reset, \* calls of an_important_function since the last cleanup
    ok_since_reset,\* those of them that returned
    cleaned_up,    \* TRUE from a critical_cleanup until the next critical_initialization
    \* ---- graph_nightmares/spaghetti ----
    stack,         \* frames of function_a/b/c above test_functions, innermost last
    exc,           \* TRUE while a RecursionError propagates
    retval,        \* "value" while a frame's return value is handed to its caller
    tfpc,          \* position of OrchestratorD.test_functions
    results,       \* its local list results
    base_depth,    \* frames already on the interpreter stack below test_functions
    normal_returns, \* return statements of function_a/b/c executed so far
    \* ---- security/security_holes.py: timing_attack_vulnerable ----
    user_password, \* the public argument, the same in both runs
    stored_password, \* the secret argument of each run
    pw_pc,         \* position of each run inside the function
    pw_i,          \* loop variable i of each run (1-based)
    pw_steps,      \* character comparisons made by each run
    pw_result,     \* return value of each run ("none" until it returns)
    \* ---- flow_analysis/deadlock.py: BankAccount ----
    balance,       \* balance of each BankAccount
    acct_lock,     \* holder of each account's lock: "free" or a thread name
    bpc,           \* position of each thread inside transfer_to
    bamount,       \* the amount argument of each thread's running call
    biter,         \* calls of transfer_to each thread has finished
    bret,          \* what each thread's last call returned ("none" before)
    \* ---- api/final_coverage_completion.py: FinancialService ----
    balance_tracker,   \* self.balance_tracker: account -> balance
    transaction_log,   \* self.transaction_log
    tf_result,         \* what the last transfer_funds call returned
    tf_calls,          \* number of transfer_funds calls made
    \* ---- python_pipeline/processing/tasks.py: enrich_user_data ----
    db_users,          \* ids with a row in users
    db_profile,        \* per id: "none" (no row) or the kind of its preferences
    PROCESSED_IDS,     \* the global list
    FAILED_TASKS,      \* the global list, by user_id
    CACHE_DATA,        \* keys of the global dict
    epc,               \* position inside enrich_user_data
    e_user_id,         \* the argument of the running call
    e_profile,         \* the local profile
    e_enriched,        \* TRUE once the local enriched_data is bound
    e_status,          \* result["status"]
    e_calls,           \* invocations started
    processed_at_call  \* PROCESSED_IDS when the running invocation started

dlvars == <<lock_a, lock_b, resource_a, resource_b, tpc, mainpc, dl_result>>
crvars == <<USER_CREDITS, cpc, carg, ctmp, cret, credits0>>
lkvars == <<condition, fpc, fname, fhandle, handles, fdata, fexit, ncalls>>
rcvars == <<shared_list, rpc, current_length, rmain, nstarted, njoined>>
dcvars == <<price, discount_percent, dpc, dresult>>
rmvars == <<resource_lock, file_handles, existing, nopened, mth>>
spvars == <<stack, exc, retval, tfpc, results, base_depth, normal_returns>>
gcvars == <<GLOBAL_CONFIG, GLOBAL_CACHE, GLOBAL_COUNTER, gout, calls_since_reset,
           ok_since_reset, cleaned_up>>
pwvars == <<user_password, stored_password, pw_pc, pw_i, pw_steps, pw_result>>
bkvars == <<balance, acct_lock, bpc, bamount, biter, bret>>
fsvars == <<balance_tracker, transaction_log, tf_result, tf_calls>>
euvars == <<db_users, db_profile, PROCESSED_IDS, FAILED_TASKS, CACHE_DATA, epc, e_user_id, e_profile, e_enriched, e_status, e_calls, processed_at_call>>
vars == <<dlvars, crvars, lkvars, rcvars, dcvars, rmvars, gcvars, spvars,
         pwvars, bkvars, fsvars, euvars>>

(***************************************************************************)
(*                      flow_analysis/deadlock.py                          *)
(***************************************************************************)
T1 == "Thread-1"
T2 == "Thread-2"
Threads == {T1, T2}

\* A `with lock:` statement never returns while another thread holds the lock
CanAcquireNonBlocking(l) == TRUE
CanAcquire(l) == l = "free"

InitDeadlock ==
    /\ lock_a = "free"
    /\ lock_b = "free"
    /\ resource_a = 0
    /\ resource_b = 0
    /\ tpc = [t \in Threads |-> "unstarted"]
    /\ mainpc = "start1"
    /\ dl_result = "none"

\* One step of thread t from position `from` to position `to`
Goto(t, from, to) ==
    /\ tpc[t] = from
    /\ tpc' = [tpc EXCEPT ![t] = to]

\* ---- thread_1_function: lock_a, then lock_b while holding lock_a ----
T1_Begin ==            \* line 24, 27: logging, now at `with lock_a`
    /\ Goto(T1, "started", "acquire_first")
    /\ UNCHANGED <<lock_a, lock_b, resource_a, resource_b, mainpc, dl_result>>

T1_AcquireA ==         \* line 28: with lock_a
    /\ Goto(T1, "acquire_first", "has_first")
    /\ CanAcquire(lock_a)
    /\ lock_a' = T1
    /\ UNCHANGED <<lock_b, resource_a, resource_b, mainpc, dl_result>>

T1_IncA ==             \* line 29-30: resource_a['value'] += 1
    /\ Goto(T1, "has_first", "sleep")
    /\ resource_a' = resource_a + 1
    /\ UNCHANGED <<lock_a, lock_b, resource_b, mainpc, dl_result>>

T1_Sleep ==            \* line 33, 36: time.sleep(0.1), then log "waiting for lock_b"
    /\ Goto(T1, "sleep", "wait_second")
    /\ UNCHANGED <<lock_a, lock_b, resource_a, resource_b, mainpc, dl_result>>

T1_AcquireB ==         \* line 37: with lock_b (still holding lock_a)
    /\ Goto(T1, "wait_second", "has_second")
    /\ CanAcquire(lock_b)
    /\ lock_b' = T1
    /\ UNCHANGED <<lock_a, resource_a, resource_b, mainpc, dl_result>>

T1_IncB ==             \* line 38-39: resource_b['value'] += 1
    /\ Goto(T1, "has_second", "release_second")
    /\ resource_b' = resource_b + 1
    /\ UNCHANGED <<lock_a, lock_b, resource_a, mainpc, dl_result>>

T1_ReleaseB ==         \* end of the inner with block
    /\ Goto(T1, "release_second", "release_first")
    /\ lock_b' = "free"
    /\ UNCHANGED <<lock_a, resource_a, resource_b, mainpc, dl_result>>

T1_ReleaseA ==         \* end of the outer with block, line 41: "completed"
    /\ Goto(T1, "release_first", "completed")
    /\ lock_a' = "free"
    /\ UNCHANGED <<lock_b, resource_a, resource_b, mainpc, dl_result>>

thread_1_function ==
    \/ T1_Begin \/ T1_AcquireA \/ T1_IncA \/ T1_Sleep
    \/ T1_AcquireB \/ T1_IncB \/ T1_ReleaseB \/ T1_ReleaseA

\* ---- thread_2_function: lock_b, then lock_a while holding lock_b ----
T2_Begin ==            \* line 45, 48
    /\ Goto(T2, "started", "acquire_first")
    /\ UNCHANGED <<lock_a, lock_b, resource_a, resource_b, mainpc, dl_result>>

T2_AcquireB ==         \* line 49: with lock_b
    /\ Goto(T2, "acquire_first", "has_first")
    /\ CanAcquire(lock_b)
    /\ lock_b' = T2
    /\ UNCHANGED <<lock_a, resource_a, resource_b, mainpc, dl_result>>

T2_IncB ==             \* line 50-51: resource_b['value'] += 10
    /\ Goto(T2, "has_first", "sleep")
    /\ resource_b' = resource_b + 10
    /\ UNCHANGED <<lock_a, lock_b, resource_a, mainpc, dl_result>>

T2_Sleep ==            \* line 54, 57
    /\ Goto(T2, "sleep", "wait_second")
    /\ UNCHANGED <<lock_a, lock_b, resource_a, resource_b, mainpc, dl_result>>

T2_AcquireA ==         \* line 58: with lock_a (still holding lock_b)
    /\ Goto(T2, "wait_second", "has_second")
    /\ CanAcquire(lock_a)
    /\ lock_a' = T2
    /\ UNCHANGED <<lock_b, resource_a, resource_b, mainpc, dl_result>>

T2_IncA ==             \* line 59-60: resource_a['value'] += 10
    /\ Goto(T2, "has_second", "release_second")
    /\ resource_a' = resource_a + 10
    /\ UNCHANGED <<lock_a, lock_b, resource_b, mainpc, dl_result>>

T2_ReleaseA ==         \* end of the inner with block
    /\ Goto(T2, "release_second", "release_first")
    /\ lock_a' = "free"
    /\ UNCHANGED <<lock_b, resource_a, resource_b, mainpc, dl_result>>

T2_ReleaseB ==         \* end of the outer with block, line 62
    /\ Goto(T2, "release_first", "completed")
    /\ lock_b' = "free"
    /\ UNCHANGED <<lock_a, resource_a, resource_b, mainpc, dl_result>>

thread_2_function ==
    \/ T2_Begin \/ T2_AcquireB \/ T2_IncB \/ T2_Sleep
    \/ T2_AcquireA \/ T2_IncA \/ T2_ReleaseA \/ T2_ReleaseB

\* ---- create_deadlock ----
is_alive(t) == tpc[t] \notin {"unstarted", "completed"}

StartThread1 ==        \* line 70
    /\ mainpc = "start1"
    /\ mainpc' = "start2"
    /\ tpc' = [tpc EXCEPT ![T1] = "started"]
    /\ UNCHANGED <<lock_a, lock_b, resource_a, resource_b, dl_result>>

StartThread2 ==        \* line 71
    /\ mainpc = "start2"
    /\ mainpc' = "join1"
    /\ tpc' = [tpc EXCEPT ![T2] = "started"]
    /\ UNCHANGED <<lock_a, lock_b, resource_a, resource_b, dl_result>>

\* join(timeout=5) returns when the thread has finished or the timeout expired
JoinThread1 ==         \* line 74
    /\ mainpc = "join1"
    /\ \E timed_out \in BOOLEAN : timed_out \/ ~is_alive(T1)
    /\ mainpc' = "join2"
    /\ UNCHANGED <<lock_a, lock_b, resource_a, resource_b, tpc, dl_result>>

JoinThread2 ==         \* line 75
    /\ mainpc = "join2"
    /\ \E timed_out \in BOOLEAN : timed_out \/ ~is_alive(T2)
    /\ mainpc' = "check"
    /\ UNCHANGED <<lock_a, lock_b, resource_a, resource_b, tpc, dl_result>>

CheckAlive ==          \* line 78-82
    /\ mainpc = "check"
    /\ mainpc' = "returned"
    /\ dl_result' = IF is_alive(T1) \/ is_alive(T2) THEN "False" ELSE "True"
    /\ UNCHANGED <<lock_a, lock_b, resource_a, resource_b, tpc>>

create_deadlock ==
    \/ StartThread1 \/ StartThread2 \/ JoinThread1 \/ JoinThread2 \/ CheckAlive


(***************************************************************************)
(*                         api/auth_service.py                             *)
(***************************************************************************)
NumCalls == 2          \* concurrent requests calling use_credit
InitialCredits == 1    \* USER_CREDITS = {"test_user": 1}
Calls == 1..NumCalls
Usernames == {"test_user", "ghost"}

\* USER_CREDITS.get(username, 0)
get(d, k) == IF k \in DOMAIN d THEN d[k] ELSE 0

\* the test of line 33
HasCreditOrZero(v) == v >= 0
HasCredit(v) == v > 0

\* The dict holds what earlier, completed calls left of the initial credit.
InitCredit ==
    /\ credits0 \in 0..InitialCredits
    /\ USER_CREDITS = [u \in {"test_user"} |-> credits0]
    /\ carg = [c \in Calls |-> "none"]
    /\ cpc = [c \in Calls |-> "idle"]
    /\ ctmp = [c \in Calls |-> 0]
    /\ cret = [c \in Calls |-> "none"]

CallUseCredit(c) ==    \* line 32: a request enters use_credit(username)
    /\ cpc[c] = "idle"
    /\ \E u \in Usernames : carg' = [carg EXCEPT ![c] = u]
    /\ cpc' = [cpc EXCEPT ![c] = "check"]
    /\ UNCHANGED <<USER_CREDITS, ctmp, cret, credits0>>

Check(c) ==            \* line 33: if USER_CREDITS.get(username, 0) > 0
    /\ cpc[c] = "check"
    /\ IF HasCredit(get(USER_CREDITS, carg[c]))
       THEN /\ cpc' = [cpc EXCEPT ![c] = "load"]
            /\ cret' = cret
       ELSE /\ cpc' = [cpc EXCEPT ![c] = "done"]      \* line 37: return False
            /\ cret' = [cret EXCEPT ![c] = "False"]
    /\ UNCHANGED <<USER_CREDITS, carg, ctmp, credits0>>

\* line 35, `USER_CREDITS[username] -= 1`, is a subscript load followed by a
\* subscript store; another thread can run between the two.
Load(c) ==
    /\ cpc[c] = "load"
    /\ carg[c] \in DOMAIN USER_CREDITS
    /\ ctmp' = [ctmp EXCEPT ![c] = USER_CREDITS[carg[c]]]
    /\ cpc' = [cpc EXCEPT ![c] = "store"]
    /\ UNCHANGED <<USER_CREDITS, carg, cret, credits0>>

Store(c) ==
    /\ cpc[c] = "store"
    /\ USER_CREDITS' = [USER_CREDITS EXCEPT ![carg[c]] = ctmp[c] - 1]
    /\ cpc' = [cpc EXCEPT ![c] = "return"]
    /\ UNCHANGED <<carg, ctmp, cret, credits0>>

ReturnTrue(c) ==       \* line 36: return True
    /\ cpc[c] = "return"
    /\ cret' = [cret EXCEPT ![c] = "True"]
    /\ cpc' = [cpc EXCEPT ![c] = "done"]
    /\ UNCHANGED <<USER_CREDITS, carg, ctmp, credits0>>

use_credit(c) == Check(c) \/ Load(c) \/ Store(c) \/ ReturnTrue(c)

(***************************************************************************)
(*                   flow_analysis/resource_leak.py                        *)
(***************************************************************************)
MaxCalls == 3          \* calls of leaky_function in one run
ReadLimit == 100       \* f.read(100)
Existing == {"short.txt", "long.txt"}
Filenames == Existing \cup {"missing.txt"}
\* characters in each existing file
FileSize(fn) == IF fn = "short.txt" THEN 40 ELSE 250

Min(a, b) == IF a < b THEN a ELSE b

InitLeak ==
    /\ condition \in BOOLEAN
    /\ fpc = "idle"
    /\ fname = "none"
    /\ fhandle = 0
    /\ handles = <<>>
    /\ fdata = 0
    /\ fexit = "none"
    /\ ncalls = 0

CallLeaky ==           \* line 17: leaky_function(filename)
    /\ fpc = "idle"
    /\ ncalls < MaxCalls
    /\ \E fn \in Filenames : fname' = fn
    /\ fpc' = "open"
    /\ fhandle' = 0
    /\ fdata' = 0
    /\ fexit' = "none"
    /\ ncalls' = ncalls + 1
    /\ UNCHANGED <<condition, handles>>

Open ==                \* line 19: f = open(filename, 'r')
    /\ fpc = "open"
    /\ IF fname \in Existing
       THEN /\ handles' = Append(handles, [file |-> fname, open |-> TRUE, pos |-> 0])
            /\ fhandle' = Len(handles) + 1
            /\ fpc' = "test"
            /\ fexit' = fexit
       ELSE /\ fexit' = "raised"        \* FileNotFoundError leaves the function
            /\ fpc' = "idle"
            /\ UNCHANGED <<handles, fhandle>>
    /\ UNCHANGED <<condition, fname, fdata, ncalls>>

TestCondition ==       \* line 22: if condition
    /\ fpc = "test"
    /\ fpc' = IF condition THEN "read_some" ELSE "read_all"
    /\ UNCHANGED <<condition, fname, fhandle, handles, fdata, fexit, ncalls>>

ReadSome ==            \* line 23: data = f.read(100)
    /\ fpc = "read_some"
    /\ fdata' = Min(ReadLimit, FileSize(fname))
    /\ handles' = [handles EXCEPT ![fhandle].pos = Min(ReadLimit, FileSize(fname))]
    /\ fpc' = "early_return"
    /\ UNCHANGED <<condition, fname, fhandle, fexit, ncalls>>

\* line 24: return data, the handle is left as it is
EarlyReturnClosing ==
    /\ fpc = "early_return"
    /\ fexit' = "early_return"
    /\ fpc' = "idle"
    /\ handles' = [handles EXCEPT ![fhandle].open = FALSE]
    /\ UNCHANGED <<condition, fname, fhandle, fdata, ncalls>>

EarlyReturn ==
    /\ fpc = "early_return"
    /\ fexit' = "early_return"
    /\ fpc' = "idle"
    /\ UNCHANGED <<condition, fname, fhandle, handles, fdata, ncalls>>

ReadAll ==             \* line 27: data = f.read()
    /\ fpc = "read_all"
    /\ fdata' = FileSize(fname)
    /\ handles' = [handles EXCEPT ![fhandle].pos = FileSize(fname)]
    /\ fpc' = "close"
    /\ UNCHANGED <<condition, fname, fhandle, fexit, ncalls>>

Close ==               \* line 28: f.close()
    /\ fpc = "close"
    /\ handles' = [handles EXCEPT ![fhandle].open = FALSE]
    /\ fpc' = "return"
    /\ UNCHANGED <<condition, fname, fhandle, fdata, fexit, ncalls>>

Return ==              \* line 29: return data
    /\ fpc = "return"
    /\ fexit' = "return"
    /\ fpc' = "idle"
    /\ UNCHANGED <<condition, fname, fhandle, handles, fdata, ncalls>>

leaky_function ==
    \/ Open \/ TestCondition \/ ReadSome \/ EarlyReturn
    \/ ReadAll \/ Close \/ Return

(***************************************************************************)
(*              tests/test_rca_scenarios.py: test_race_condition           *)
(***************************************************************************)
NumThreads == 3        \* threads started by the test (100 in the source)
Appenders == 1..NumThreads

InitRace ==            \* line 39: shared_list = []
    /\ shared_list = <<>>
    /\ rpc = [t \in Appenders |-> "unstarted"]
    /\ current_length = [t \in Appenders |-> 0]
    /\ rmain = "spawn"
    /\ nstarted = 0
    /\ njoined = 0

SpawnThread ==         \* line 51-54: Thread(target=append_to_list, args=(1,)).start()
    /\ rmain = "spawn"
    /\ nstarted < NumThreads
    /\ nstarted' = nstarted + 1
    /\ rpc' = [rpc EXCEPT ![nstarted + 1] = "read"]
    /\ rmain' = IF nstarted + 1 = NumThreads THEN "join" ELSE "spawn"
    /\ UNCHANGED <<shared_list, current_length, njoined>>

ReadLength(t) ==       \* line 45: current_length = len(shared_list)
    /\ rpc[t] = "read"
    /\ current_length' = [current_length EXCEPT ![t] = Len(shared_list)]
    /\ rpc' = [rpc EXCEPT ![t] = "sleep"]
    /\ UNCHANGED <<shared_list, rmain, nstarted, njoined>>

SleepAppender(t) ==    \* line 46: time.sleep(0.0001)
    /\ rpc[t] = "sleep"
    /\ rpc' = [rpc EXCEPT ![t] = "append"]
    /\ UNCHANGED <<shared_list, current_length, rmain, nstarted, njoined>>

AppendLength(t) ==     \* line 47: shared_list.append(current_length); range(1) ends
    /\ rpc[t] = "append"
    /\ shared_list' = Append(shared_list, current_length[t])
    /\ rpc' = [rpc EXCEPT ![t] = "done"]
    /\ UNCHANGED <<current_length, rmain, nstarted, njoined>>

append_to_list(t) == ReadLength(t) \/ SleepAppender(t) \/ AppendLength(t)

JoinAppender ==        \* line 57-58: thread.join(), in creation order
    /\ rmain = "join"
    /\ rpc[njoined + 1] = "done"
    /\ njoined' = njoined + 1
    /\ rmain' = IF njoined + 1 = NumThreads THEN "assert_length" ELSE "join"
    /\ UNCHANGED <<shared_list, rpc, current_length, nstarted>>

Values(seq) == {seq[i] : i \in 1..Len(seq)}

AssertLength ==        \* line 61: assert len(shared_list) == 100
    /\ rmain = "assert_length"
    /\ rmain' = IF Len(shared_list) = NumThreads THEN "assert_unique" ELSE "failed"
    /\ UNCHANGED <<shared_list, rpc, current_length, nstarted, njoined>>

AssertUnique ==        \* line 64-65: assert len(set(shared_list)) == len(shared_list)
    /\ rmain = "assert_unique"
    /\ rmain' = IF Cardinality(Values(shared_list)) = Len(shared_list)
                THEN "passed" ELSE "failed"
    /\ UNCHANGED <<shared_list, rpc, current_length, nstarted, njoined>>

test_race_condition == SpawnThread \/ JoinAppender \/ AssertLength \/ AssertUnique

(***************************************************************************)
(*       api/final_coverage_completion.py: DataValidator                   *)
(***************************************************************************)
MaxPrice == 4          \* largest finite price tried, in whole units

\* A float is a record: kind "fin" with its value in hundredths, or one of
\* the IEEE specials "inf", "ninf", "nan".  The finite values used here
\* (whole prices, whole percents) are exact in hundredths.
Fin(n) == [k |-> "fin", n |-> n]
Inf == [k |-> "inf", n |-> 0]
NegInf == [k |-> "ninf", n |-> 0]
NaN == [k |-> "nan", n |-> 0]

Sign(x) == CASE x.k = "inf" -> 1
             [] x.k = "ninf" -> -1
             [] x.k = "fin" -> IF x.n > 0 THEN 1 ELSE IF x.n < 0 THEN -1 ELSE 0
             [] OTHER -> 0

\* discount_percent / 100 : true division of two ints
IntDiv100(d) == Fin(d)
\* 1 - x
OneMinus(x) == CASE x.k = "fin" -> Fin(100 - x.n)
                 [] x.k = "inf" -> NegInf
                 [] x.k = "ninf" -> Inf
                 [] OTHER -> NaN
\* a * b; infinity times zero is NaN
FMul(a, b) ==
    IF a.k = "nan" \/ b.k = "nan" THEN NaN
    ELSE IF a.k = "fin" /\ b.k = "fin" THEN Fin((a.n * b.n) \div 100)
    ELSE IF Sign(a) * Sign(b) = 0 THEN NaN
    ELSE IF Sign(a) * Sign(b) > 0 THEN Inf ELSE NegInf
\* a <= b; every comparison with NaN is false
FLe(a, b) ==
    /\ a.k # "nan" /\ b.k # "nan"
    /\ \/ a.k = "ninf"
       \/ b.k = "inf"
       \/ a.k = "fin" /\ b.k = "fin" /\ a.n <= b.n
FLt(a, b) == FLe(a, b) /\ ~FLe(b, a)

Prices == {Fin(100 * p) : p \in (0 - 1)..MaxPrice} \cup {Inf}
Percents == (0 - 2)..102

InitDiscount ==
    /\ price \in Prices
    /\ discount_percent \in Percents
    /\ dpc = "call"
    /\ dresult = NaN

calculate_discount ==  \* line 132-145
    /\ dpc = "call"
    /\ dresult' = IF discount_percent < 0
                  THEN Fin(0 - 1000)                                  \* line 141
                  ELSE FMul(price, OneMinus(IntDiv100(discount_percent)))  \* line 144
    /\ dpc' = "returned"
    /\ UNCHANGED <<price, discount_percent>>

(***************************************************************************)
(*       api/final_coverage_completion.py: ResourceManager                 *)
(***************************************************************************)
MaxBatch == 2          \* longest file_paths list tried
Workers == {"w1", "w2"}
\* "dir" names a directory: open() raises for it in either mode
Paths == {"ok.txt", "missing.txt", "dir"}
PathLists == UNION {[1..n -> Paths] : n \in 0..MaxBatch}

InitManager ==         \* line 311-313: __init__
    /\ resource_lock = FALSE
    /\ file_handles = [p \in {} |-> 0]
    /\ existing = {"ok.txt"}
    /\ nopened = 0
    /\ mth = [t \in Workers |-> [pc |-> "idle", m |-> "none", paths |-> <<>>, i |-> 0, calls |-> 0]]

At(t, m, pc) == mth[t].pc = pc /\ mth[t].m = m

CallBatch(t) ==        \* a thread calls process_file_batch_a or _b
    /\ mth[t].pc \in {"idle", "returned", "raised"}
    /\ \E m \in {"a", "b"}, ps \in PathLists :
          mth' = [mth EXCEPT ![t] = [pc |-> "acquire", m |-> m, paths |-> ps,
                                     i |-> 1, calls |-> @.calls]]
    /\ UNCHANGED <<resource_lock, file_handles, existing, nopened>>

\* ---- process_file_batch_a ----
A_Acquire(t) ==        \* line 321: self.resource_lock.acquire()
    /\ At(t, "a", "acquire")
    /\ ~resource_lock
    /\ resource_lock' = TRUE
    /\ mth' = [mth EXCEPT ![t].pc = "loop"]
    /\ UNCHANGED <<file_handles, existing, nopened>>

A_Open(t) ==           \* line 323-325: open(path, 'r'), stored in file_handles
    /\ At(t, "a", "loop")
    /\ mth[t].i <= Len(mth[t].paths)
    /\ LET path == mth[t].paths[mth[t].i] IN
       IF path \in existing
       THEN /\ nopened' = nopened + 1
            /\ file_handles' = [q \in DOMAIN file_handles \cup {path} |->
                                  IF q = path THEN nopened + 1 ELSE file_handles[q]]
            /\ mth' = [mth EXCEPT ![t].i = @ + 1]
       ELSE /\ mth' = [mth EXCEPT ![t].pc = "raised", ![t].calls = @ + 1]
            /\ UNCHANGED <<nopened, file_handles>>
    /\ UNCHANGED <<resource_lock, existing>>

\* line 328: the method ends; resource_lock.release() is never called
A_ReturnReleasing(t) ==
    /\ At(t, "a", "loop")
    /\ mth[t].i > Len(mth[t].paths)
    /\ mth' = [mth EXCEPT ![t].pc = "returned", ![t].calls = @ + 1]
    /\ resource_lock' = FALSE
    /\ UNCHANGED <<file_handles, existing, nopened>>

A_Return(t) ==
    /\ At(t, "a", "loop")
    /\ mth[t].i > Len(mth[t].paths)
    /\ mth' = [mth EXCEPT ![t].pc = "returned", ![t].calls = @ + 1]
    /\ UNCHANGED <<resource_lock, file_handles, existing, nopened>>

process_file_batch_a(t) == A_Acquire(t) \/ A_Open(t) \/ A_Return(t)

\* ---- process_file_batch_b ----
B_Acquire(t) ==        \* line 335: self.resource_lock.acquire()
    /\ At(t, "b", "acquire")
    /\ ~resource_lock
    /\ resource_lock' = TRUE
    /\ mth' = [mth EXCEPT ![t].pc = "loop"]
    /\ UNCHANGED <<file_handles, existing, nopened>>

B_Open(t) ==           \* line 337-340: open(path, 'w') creates the file; write
    /\ At(t, "b", "loop")
    /\ mth[t].i <= Len(mth[t].paths)
    /\ LET path == mth[t].paths[mth[t].i] IN
       IF path # "dir"
       THEN /\ nopened' = nopened + 1
            /\ existing' = existing \cup {path}
            /\ mth' = [mth EXCEPT ![t].i = @ + 1]
       ELSE /\ mth' = [mth EXCEPT ![t].pc = "raised", ![t].calls = @ + 1]
            /\ UNCHANGED <<nopened, existing>>
    /\ UNCHANGED <<resource_lock, file_handles>>

B_Return(t) ==         \* line 341: the method ends with the lock held
    /\ At(t, "b", "loop")
    /\ mth[t].i > Len(mth[t].paths)
    /\ mth' = [mth EXCEPT ![t].pc = "returned", ![t].calls = @ + 1]
    /\ UNCHANGED <<resource_lock, file_handles, existing, nopened>>

process_file_batch_b(t) == B_Acquire(t) \/ B_Open(t) \/ B_Return(t)

(***************************************************************************)
(*                graph_nightmares/hotspots/critical.py                    *)
(***************************************************************************)
CallLimit == 100       \* line 32: if GLOBAL_COUNTER > 100
MaxOver == 3           \* calls tried beyond the limit before a cleanup
ConfigKeys == {"debug", "timeout"}
ConfigValues == {"True", "0"}
DataValues == {"initialized", "x", ""}

\* str(data).upper()
Upper(d) == CASE d = "initialized" -> "INITIALIZED"
              [] d = "x" -> "X"
              [] OTHER -> d
\* truth value of a stored object: empty string and False are false
Truthy(v) == v \notin {"", "False", "None"}
\* d.get(k), None when the key is absent
DictGet(d, k) == IF k \in DOMAIN d THEN d[k] ELSE "None"
\* d[k] = v
DictSet(d, k, v) == [q \in DOMAIN d \cup {k} |-> IF q = k THEN v ELSE d[q]]
EmptyDict == [q \in {} |-> ""]
InitializedCache ==    \* line 53-57
    [q \in {"initialized", "timestamp", "version"} |->
        CASE q = "initialized" -> "True"
          [] q = "timestamp" -> "now"
          [] OTHER -> "1.0.0"]
Outcome(fn, res) == [fn |-> fn, res |-> res]

\* the test of line 32
TooManyCallsOffByOne(c) == c >= CallLimit
TooManyCalls(c) == c > CallLimit

\* the module has been imported: line 14-24, and line 122 ran critical_initialization()
InitCritical ==
    /\ GLOBAL_CONFIG = [q \in ConfigKeys |-> IF q = "debug" THEN "True" ELSE "30"]
    /\ GLOBAL_CACHE = InitializedCache
    /\ GLOBAL_COUNTER = 0
    /\ gout = Outcome("import", "ok")
    /\ calls_since_reset = 0
    /\ ok_since_reset = 0
    /\ cleaned_up = FALSE

an_important_function ==       \* line 26-35
    /\ GLOBAL_COUNTER < CallLimit + MaxOver
    /\ GLOBAL_COUNTER' = GLOBAL_COUNTER + 1
    /\ calls_since_reset' = calls_since_reset + 1
    /\ IF TooManyCalls(GLOBAL_COUNTER + 1)
       THEN /\ gout' = Outcome("an_important_function", "RuntimeError")
            /\ ok_since_reset' = ok_since_reset
       ELSE /\ gout' = Outcome("an_important_function", "ok")
            /\ ok_since_reset' = ok_since_reset + 1
    /\ UNCHANGED <<GLOBAL_CONFIG, GLOBAL_CACHE, cleaned_up>>

get_critical_config ==         \* line 37-41
    /\ \E key \in ConfigKeys \cup {"nokey"} :
          gout' = Outcome("get_critical_config",
                          IF key \notin DOMAIN GLOBAL_CONFIG THEN "KeyError" ELSE "ok")
    /\ UNCHANGED <<GLOBAL_CONFIG, GLOBAL_CACHE, GLOBAL_COUNTER, calls_since_reset, ok_since_reset,
                   cleaned_up>>

set_critical_config ==         \* line 43-48
    /\ \E key \in ConfigKeys, value \in ConfigValues :
          GLOBAL_CONFIG' = DictSet(GLOBAL_CONFIG, key, value)
    /\ gout' = Outcome("set_critical_config", "ok")
    /\ UNCHANGED <<GLOBAL_CACHE, GLOBAL_COUNTER, calls_since_reset, ok_since_reset,
                   cleaned_up>>

critical_initialization ==     \* line 50-62
    /\ GLOBAL_CACHE' = InitializedCache
    /\ gout' = Outcome("critical_initialization", "ok")
    /\ cleaned_up' = FALSE
    /\ UNCHANGED <<GLOBAL_CONFIG, GLOBAL_COUNTER, calls_since_reset, ok_since_reset>>

critical_validation ==         \* line 64-72
    /\ \E data \in DataValues :
          gout' = Outcome("critical_validation",
                          IF ~Truthy(DictGet(GLOBAL_CACHE, "initialized")) THEN "RuntimeError"
                          ELSE IF ~Truthy(data) THEN "ValueError"
                          ELSE "ok")
    /\ UNCHANGED <<GLOBAL_CONFIG, GLOBAL_CACHE, GLOBAL_COUNTER, calls_since_reset, ok_since_reset,
                   cleaned_up>>

critical_transformation ==     \* line 74-82
    /\ \E data \in DataValues :
          GLOBAL_CACHE' = DictSet(GLOBAL_CACHE, data, Upper(data))
    /\ gout' = Outcome("critical_transformation", "ok")
    /\ UNCHANGED <<GLOBAL_CONFIG, GLOBAL_COUNTER, calls_since_reset, ok_since_reset,
                   cleaned_up>>

critical_cleanup ==            \* line 84-93
    /\ GLOBAL_CACHE' = EmptyDict
    /\ GLOBAL_COUNTER' = 0
    /\ GLOBAL_CONFIG' = DictSet(GLOBAL_CONFIG, "debug", "False")
    /\ gout' = Outcome("critical_cleanup", "ok")
    /\ calls_since_reset' = 0
    /\ ok_since_reset' = 0
    /\ cleaned_up' = TRUE

(***************************************************************************)
(*                     graph_nightmares/spaghetti                          *)
(***************************************************************************)
RecursionLimit == 12   \* the interpreter's recursion limit
MaxBase == 2           \* deepest caller of test_functions tried

InitSpaghetti ==
    /\ stack = <<>>
    /\ exc = FALSE
    /\ retval = "none"
    /\ tfpc = "try_a"
    /\ results = <<>>
    /\ base_depth \in 0..MaxBase
    /\ normal_returns = 0

\* frames in use: the callers, test_functions itself, and the frames above it
Depth == base_depth + 1 + Len(stack)
Top == stack[Len(stack)]
Running(fn) == stack # <<>> /\ Top = fn /\ ~exc /\ retval = "none"

\* A call of `callee` from the running frame: a new frame, or RecursionError
\* raised in the caller when the limit is reached.
CallFrom(callee) ==
    /\ IF Depth + 1 > RecursionLimit
       THEN exc' = TRUE /\ stack' = stack
       ELSE exc' = exc /\ stack' = Append(stack, callee)
    /\ UNCHANGED <<retval, tfpc, results, base_depth, normal_returns>>

function_a ==          \* module_a.py line 41: result = module_b.function_b()
    /\ Running("function_a")
    /\ CallFrom("function_b")

function_b ==          \* module_b.py line 45: result = module_c.function_c()
    /\ Running("function_b")
    /\ CallFrom("function_c")

\* module_c.py line 54: result = module_a.function_a()
function_c_with_base_case ==
    /\ Running("function_c")
    /\ stack' = SubSeq(stack, 1, Len(stack) - 1)
    /\ retval' = "value"
    /\ normal_returns' = normal_returns + 1
    /\ UNCHANGED <<exc, tfpc, results, base_depth>>

function_c ==
    /\ Running("function_c")
    /\ CallFrom("function_a")

\* The frame on top is left: by the exception passing through it (none of the
\* three functions has a handler) or, once its callee has returned a value,
\* by its own return statement (module_a.py:42, module_b.py:46, module_c.py:55).
LeaveFrame ==
    /\ stack # <<>>
    /\ exc \/ retval = "value"
    /\ stack' = SubSeq(stack, 1, Len(stack) - 1)
    /\ normal_returns' = IF exc THEN normal_returns ELSE normal_returns + 1
    /\ UNCHANGED <<exc, retval, tfpc, results, base_depth>>

\* ---- OrchestratorD.test_functions, module_d.py line 57-76 ----
TryName(pc) == CASE pc \in {"try_a", "in_a"} -> "function_a"
                 [] pc \in {"try_b", "in_b"} -> "function_b"
                 [] OTHER -> "function_c"
Inside(pc) == CASE pc = "try_a" -> "in_a" [] pc = "try_b" -> "in_b" [] OTHER -> "in_c"
After(pc) == CASE pc = "in_a" -> "try_b" [] pc = "in_b" -> "try_c" [] OTHER -> "returned"
Failed(fn) == CASE fn = "function_a" -> "function_a failed"
                [] fn = "function_b" -> "function_b failed"
                [] OTHER -> "function_c failed"

TryCall ==             \* line 62, 67, 72: the call inside results.append(...)
    /\ tfpc \in {"try_a", "try_b", "try_c"}
    /\ tfpc' = Inside(tfpc)
    /\ IF Depth + 1 > RecursionLimit
       THEN exc' = TRUE /\ stack' = stack
       ELSE exc' = exc /\ stack' = Append(stack, TryName(tfpc))
    /\ UNCHANGED <<retval, results, base_depth, normal_returns>>

TryEnd ==              \* line 62-64, 67-69, 72-74 and, after the last, line 76
    /\ tfpc \in {"in_a", "in_b", "in_c"}
    /\ stack = <<>>
    /\ exc \/ retval = "value"
    /\ results' = Append(results, IF exc THEN Failed(TryName(tfpc)) ELSE "value")
    /\ exc' = FALSE
    /\ retval' = "none"
    /\ tfpc' = After(tfpc)
    /\ UNCHANGED <<stack, base_depth, normal_returns>>

test_functions == TryCall \/ TryEnd

(***************************************************************************)
(*           security/security_holes.py: timing_attack_vulnerable          *)
(***************************************************************************)
MaxPwLen == 3          \* longest password tried
Alphabet == {"a", "b"}
Passwords == UNION {[1..n -> Alphabet] : n \in 0..MaxPwLen}
Runs == {1, 2}

InitTiming ==
    /\ user_password \in Passwords
    /\ stored_password \in [Runs -> Passwords]
    /\ pw_pc = [r \in Runs |-> "idle"]
    /\ pw_i = [r \in Runs |-> 0]
    /\ pw_steps = [r \in Runs |-> 0]
    /\ pw_result = [r \in Runs |-> "none"]

PwCall(r) ==           \* line 181: the second run starts when the first has returned
    /\ pw_pc[r] = "idle"
    /\ r = 2 => pw_pc[1] = "returned"
    /\ pw_pc' = [pw_pc EXCEPT ![r] = "len_check"]
    /\ UNCHANGED <<user_password, stored_password, pw_i, pw_steps, pw_result>>

PwLenCheck(r) ==       \* line 184-185
    /\ pw_pc[r] = "len_check"
    /\ IF Len(user_password) # Len(stored_password[r])
       THEN /\ pw_result' = [pw_result EXCEPT ![r] = "False"]
            /\ pw_pc' = [pw_pc EXCEPT ![r] = "returned"]
            /\ pw_i' = pw_i
       ELSE /\ pw_pc' = [pw_pc EXCEPT ![r] = "loop"]
            /\ pw_i' = [pw_i EXCEPT ![r] = 1]
            /\ pw_result' = pw_result
    /\ UNCHANGED <<user_password, stored_password, pw_steps>>

\* line 189-190: if user_password[i] != stored_password[i]: return False
PwCompareConstantTime(r) ==
    /\ pw_pc[r] = "loop"
    /\ pw_i[r] <= Len(user_password)
    /\ IF user_password[pw_i[r]] # stored_password[r][pw_i[r]]
       THEN /\ pw_steps' = [pw_steps EXCEPT ![r] = Len(user_password)]
            /\ pw_result' = [pw_result EXCEPT ![r] = "False"]
            /\ pw_pc' = [pw_pc EXCEPT ![r] = "returned"]
            /\ pw_i' = pw_i
       ELSE /\ pw_steps' = [pw_steps EXCEPT ![r] = @ + 1]
            /\ pw_i' = [pw_i EXCEPT ![r] = @ + 1]
            /\ UNCHANGED <<pw_result, pw_pc>>
    /\ UNCHANGED <<user_password, stored_password>>

PwCompare(r) ==
    /\ pw_pc[r] = "loop"
    /\ pw_i[r] <= Len(user_password)
    /\ pw_steps' = [pw_steps EXCEPT ![r] = @ + 1]
    /\ IF user_password[pw_i[r]] # stored_password[r][pw_i[r]]
       THEN /\ pw_result' = [pw_result EXCEPT ![r] = "False"]
            /\ pw_pc' = [pw_pc EXCEPT ![r] = "returned"]
            /\ pw_i' = pw_i
       ELSE /\ pw_i' = [pw_i EXCEPT ![r] = @ + 1]
            /\ UNCHANGED <<pw_result, pw_pc>>
    /\ UNCHANGED <<user_password, stored_password>>

PwLoopEnd(r) ==        \* line 188, 192: range exhausted, return True
    /\ pw_pc[r] = "loop"
    /\ pw_i[r] > Len(user_password)
    /\ pw_result' = [pw_result EXCEPT ![r] = "True"]
    /\ pw_pc' = [pw_pc EXCEPT ![r] = "returned"]
    /\ UNCHANGED <<user_password, stored_password, pw_i, pw_steps>>

timing_attack_vulnerable(r) == PwLenCheck(r) \/ PwCompare(r) \/ PwLoopEnd(r)

(***************************************************************************)
(*                flow_analysis/deadlock.py: BankAccount                   *)
(***************************************************************************)
MaxTransfers == 2      \* calls each thread makes (range(10) in the source)
StartBalance == 2      \* opening balance of both accounts (1000 in the source)
Accounts == {"A", "B"}
Transferrers == {"transfer_a_to_b", "transfer_b_to_a"}
Self(t) == IF t = "transfer_a_to_b" THEN "A" ELSE "B"
Other(t) == IF t = "transfer_a_to_b" THEN "B" ELSE "A"
\* amounts tried: one the balance can cover, one it cannot
Amounts == {1, StartBalance + 1}

InitBank ==            \* line 107-108, 88-91
    /\ balance = [a \in Accounts |-> StartBalance]
    /\ acct_lock = [a \in Accounts |-> "free"]
    /\ bpc = [t \in Transferrers |-> "idle"]
    /\ bamount = [t \in Transferrers |-> 0]
    /\ biter = [t \in Transferrers |-> 0]
    /\ bret = [t \in Transferrers |-> "none"]

BankGoto(t, from, to) ==
    /\ bpc[t] = from
    /\ bpc' = [bpc EXCEPT ![t] = to]

CallTransfer(t) ==     \* line 111-112: the next self.transfer_to(other, amount)
    /\ BankGoto(t, "idle", "lock_self")
    /\ biter[t] < MaxTransfers
    /\ \E amt \in Amounts : bamount' = [bamount EXCEPT ![t] = amt]
    /\ UNCHANGED <<balance, acct_lock, biter, bret>>

LockSelf(t) ==         \* line 96: with self.lock
    /\ BankGoto(t, "lock_self", "sleep")
    /\ acct_lock[Self(t)] = "free"
    /\ acct_lock' = [acct_lock EXCEPT ![Self(t)] = t]
    /\ UNCHANGED <<balance, bamount, biter, bret>>

BankSleep(t) ==        \* line 97: time.sleep(0.01)
    /\ BankGoto(t, "sleep", "lock_other")
    /\ UNCHANGED <<balance, acct_lock, bamount, biter, bret>>

LockOther(t) ==        \* line 98: with other_account.lock
    /\ BankGoto(t, "lock_other", "check")
    /\ acct_lock[Other(t)] = "free"
    /\ acct_lock' = [acct_lock EXCEPT ![Other(t)] = t]
    /\ UNCHANGED <<balance, bamount, biter, bret>>

CheckBalance(t) ==     \* line 99: if self.balance >= amount
    /\ bpc[t] = "check"
    /\ IF balance[Self(t)] >= bamount[t]
       THEN /\ bpc' = [bpc EXCEPT ![t] = "debit"]
            /\ bret' = bret
       ELSE /\ bpc' = [bpc EXCEPT ![t] = "release_other"]
            /\ bret' = [bret EXCEPT ![t] = "False"]       \* line 103 follows
    /\ UNCHANGED <<balance, acct_lock, bamount, biter>>

Debit(t) ==            \* line 100: self.balance -= amount
    /\ BankGoto(t, "debit", "credit")
    /\ balance' = [balance EXCEPT ![Self(t)] = @ - bamount[t]]
    /\ UNCHANGED <<acct_lock, bamount, biter, bret>>

\* line 101-102: other_account.balance += amount; return True
CreditLost(t) ==
    /\ BankGoto(t, "credit", "release_other")
    /\ bret' = [bret EXCEPT ![t] = "True"]
    /\ UNCHANGED <<balance, acct_lock, bamount, biter>>

Credit(t) ==
    /\ BankGoto(t, "credit", "release_other")
    /\ balance' = [balance EXCEPT ![Other(t)] = @ + bamount[t]]
    /\ bret' = [bret EXCEPT ![t] = "True"]
    /\ UNCHANGED <<acct_lock, bamount, biter>>

ReleaseOther(t) ==     \* leaving the inner with block
    /\ BankGoto(t, "release_other", "release_self")
    /\ acct_lock' = [acct_lock EXCEPT ![Other(t)] = "free"]
    /\ UNCHANGED <<balance, bamount, biter, bret>>

ReleaseSelf(t) ==      \* leaving the outer with block; the call returns
    /\ BankGoto(t, "release_self", "idle")
    /\ acct_lock' = [acct_lock EXCEPT ![Self(t)] = "free"]
    /\ biter' = [biter EXCEPT ![t] = @ + 1]
    /\ UNCHANGED <<balance, bamount, bret>>

transfer_to(t) ==
    \/ LockSelf(t) \/ BankSleep(t) \/ LockOther(t) \/ CheckBalance(t)
    \/ Debit(t) \/ Credit(t) \/ ReleaseOther(t) \/ ReleaseSelf(t)

(***************************************************************************)
(*           api/final_coverage_completion.py: FinancialService            *)
(***************************************************************************)
MaxTransferCalls == 3  \* longest sequence of transfer_funds calls tried
DefaultFromBalance == 1000   \* line 368: balance_tracker.get(from_account, 1000.0)
DefaultToBalance == 0        \* line 374: balance_tracker.get(to_account, 0)
AccountNames == {"a", "b"}
\* amounts tried: negative, coverable, not coverable
TransferAmounts == {0 - 500, 400, 1500}
\* d.get(k, default)
GetOr(d, k, default) == IF k \in DOMAIN d THEN d[k] ELSE default
\* d[k] = v on a dict
PutKey(d, k, v) == [q \in DOMAIN d \cup {k} |-> IF q = k THEN v ELSE d[q]]

InitFinancial ==       \* line 348-350
    /\ balance_tracker = [q \in {} |-> 0]
    /\ transaction_log = <<>>
    /\ tf_result = [status |-> "none"]
    /\ tf_calls = 0

transfer_funds ==      \* line 353-389
    /\ tf_calls < MaxTransferCalls
    /\ tf_calls' = tf_calls + 1
    /\ \E from_account \in AccountNames, to_account \in AccountNames,
          amount \in TransferAmounts :
         LET current_balance ==
                 GetOr(balance_tracker, from_account, DefaultFromBalance)
             debited ==
                 PutKey(balance_tracker, from_account, current_balance - amount)
             credited ==
                 PutKey(debited, to_account,
                        GetOr(debited, to_account, DefaultToBalance) + amount)
         IN  IF from_account = to_account                       \* line 364
             THEN /\ tf_result' = [status |-> "error",
                                   message |-> "Cannot transfer to same account"]
                  /\ UNCHANGED <<balance_tracker, transaction_log>>
             ELSE IF current_balance < amount                   \* line 369
             THEN /\ tf_result' = [status |-> "error",
                                   message |-> "Insufficient funds"]
                  /\ UNCHANGED <<balance_tracker, transaction_log>>
             ELSE /\ balance_tracker' = credited                \* line 373-374
                  /\ transaction_log' = Append(transaction_log, \* line 377
                         [from |-> from_account, to |-> to_account,
                          amount |-> amount, status |-> "completed"])
                  /\ tf_result' =                               \* line 385
                         [status |-> "success",
                          transaction_id |-> Len(transaction_log) + 1,
                          remaining_balance |-> credited[from_account]]

(***************************************************************************)
(*          python_pipeline/processing/tasks.py: enrich_user_data          *)
(***************************************************************************)
MaxEnrichCalls == 2    \* invocations tried one after the other
UserIds == {1, 2}
\* a profile's preferences column: NULL or '', a JSON object, not JSON
PreferenceKinds == {"empty", "json", "garbage"}

InitEnrich ==          \* line 18-20, and any content of the two tables
    /\ db_users \in SUBSET UserIds
    /\ db_profile \in [UserIds -> {"none"} \cup PreferenceKinds]
    /\ PROCESSED_IDS = <<>>
    /\ FAILED_TASKS = <<>>
    /\ CACHE_DATA = {}
    /\ epc = "idle"
    /\ e_user_id = 0
    /\ e_profile = "none"
    /\ e_enriched = FALSE
    /\ e_status = "none"
    /\ e_calls = 0
    /\ processed_at_call = <<>>

CallEnrich ==          \* line 27-36: result = {"status": "pending"}
    /\ epc \in {"idle", "returned"}
    /\ e_calls < MaxEnrichCalls
    /\ e_calls' = e_calls + 1
    /\ e_user_id' \in UserIds
    /\ epc' = "fetch_user"
    /\ e_profile' = "none"
    /\ e_enriched' = FALSE
    /\ e_status' = "pending"
    /\ processed_at_call' = PROCESSED_IDS
    /\ UNCHANGED <<db_users, db_profile, PROCESSED_IDS, FAILED_TASKS, CACHE_DATA>>

FetchUser ==           \* line 40-44; the query itself may raise
    /\ epc = "fetch_user"
    /\ \E query_ok \in BOOLEAN :
         IF ~query_ok
         THEN epc' = "except" /\ e_status' = e_status
         ELSE IF e_user_id \notin db_users
         THEN epc' = "finally" /\ e_status' = "user_not_found"
         ELSE epc' = "fetch_profile" /\ e_status' = e_status
    /\ UNCHANGED <<db_users, db_profile, PROCESSED_IDS, FAILED_TASKS, CACHE_DATA,
                   e_user_id, e_profile, e_enriched, e_calls, processed_at_call>>

\* line 47-92: the profile is fetched; the totals, the conversion (whose
\* errors line 80-81 swallow) and the discount bind only local numbers
FetchProfile ==
    /\ epc = "fetch_profile"
    /\ e_profile' = db_profile[e_user_id]
    /\ epc' = "update_profile"
    /\ UNCHANGED <<db_users, db_profile, PROCESSED_IDS, FAILED_TASKS, CACHE_DATA,
                   e_user_id, e_enriched, e_status, e_calls, processed_at_call>>

UpdateProfile ==       \* line 95-111
    /\ epc = "update_profile"
    /\ IF e_profile = "none"
       THEN /\ epc' = "append"
            /\ UNCHANGED <<e_enriched, db_profile>>
       ELSE /\ e_enriched' = TRUE                               \* line 97
            /\ IF e_profile = "garbage"                         \* line 107
               THEN epc' = "except" /\ UNCHANGED db_profile
               ELSE /\ epc' = "append"
                    /\ db_profile' = [db_profile EXCEPT ![e_user_id] = "json"]
    /\ UNCHANGED <<db_users, PROCESSED_IDS, FAILED_TASKS, CACHE_DATA,
                   e_user_id, e_profile, e_status, e_calls, processed_at_call>>

AppendProcessed ==     \* line 115: PROCESSED_IDS.append(user_id)
    /\ epc = "append"
    /\ epc' = "cache"
    /\ PROCESSED_IDS' = Append(PROCESSED_IDS, e_user_id)
    /\ UNCHANGED <<db_users, db_profile, FAILED_TASKS, CACHE_DATA, e_user_id,
                   e_profile, e_enriched, e_status, e_calls, processed_at_call>>

\* line 118-124: reading enriched_data raises UnboundLocalError when line 97
\* did not run
CacheData ==
    /\ epc = "cache"
    /\ IF e_enriched
       THEN /\ CACHE_DATA' = CACHE_DATA \cup {e_user_id}
            /\ e_status' = "success"
            /\ epc' = "finally"
       ELSE /\ epc' = "except"
            /\ UNCHANGED <<CACHE_DATA, e_status>>
    /\ UNCHANGED <<db_users, db_profile, PROCESSED_IDS, FAILED_TASKS, e_user_id,
                   e_profile, e_enriched, e_calls, processed_at_call>>

Except ==              \* line 126-134
    /\ epc = "except"
    /\ FAILED_TASKS' = Append(FAILED_TASKS, e_user_id)
    /\ e_status' = "error"
    /\ epc' = "finally"
    /\ UNCHANGED <<db_users, db_profile, PROCESSED_IDS, CACHE_DATA, e_user_id,
                   e_profile, e_enriched, e_calls, processed_at_call>>

Finally ==             \* line 136-139: session.close(); return result
    /\ epc = "finally"
    /\ epc' = "returned"
    /\ UNCHANGED <<db_users, db_profile, PROCESSED_IDS, FAILED_TASKS, CACHE_DATA,
                   e_user_id, e_profile, e_enriched, e_status, e_calls,
                   processed_at_call>>

enrich_user_data ==
    \/ FetchUser \/ FetchProfile \/ UpdateProfile \/ AppendProcessed
    \/ CacheData \/ Except \/ Finally

(***************************************************************************)
(*                           Specifications                                *)
(***************************************************************************)
\* the state of a scenario that is not running
IdleDeadlock ==
    /\ lock_a = "free" /\ lock_b = "free"
    /\ resource_a = 0 /\ resource_b = 0
    /\ tpc = [t \in Threads |-> "unstarted"]
    /\ mainpc = "idle" /\ dl_result = "none"

IdleCredit ==
    /\ credits0 = InitialCredits
    /\ USER_CREDITS = [u \in {"test_user"} |-> InitialCredits]
    /\ carg = [c \in Calls |-> "none"]
    /\ cpc = [c \in Calls |-> "off"]
    /\ ctmp = [c \in Calls |-> 0]
    /\ cret = [c \in Calls |-> "none"]

IdleLeak ==
    /\ condition = TRUE
    /\ fpc = "off" /\ fname = "none" /\ fhandle = 0 /\ handles = <<>>
    /\ fdata = 0 /\ fexit = "none" /\ ncalls = 0

IdleRace ==
    /\ shared_list = <<>>
    /\ rpc = [t \in Appenders |-> "unstarted"]
    /\ current_length = [t \in Appenders |-> 0]
    /\ rmain = "off" /\ nstarted = 0 /\ njoined = 0

IdleDiscount ==
    /\ price = Fin(100) /\ discount_percent = 0
    /\ dpc = "off" /\ dresult = NaN

IdleManager ==
    /\ resource_lock = FALSE
    /\ file_handles = [p \in {} |-> 0]
    /\ existing = {"ok.txt"}
    /\ nopened = 0
    /\ mth = [t \in Workers |-> [pc |-> "off", m |-> "none", paths |-> <<>>, i |-> 0, calls |-> 0]]

IdleCritical ==
    /\ GLOBAL_CONFIG = [q \in ConfigKeys |-> IF q = "debug" THEN "True" ELSE "30"]
    /\ GLOBAL_CACHE = EmptyDict
    /\ GLOBAL_COUNTER = 0
    /\ gout = Outcome("none", "none")
    /\ calls_since_reset = 0 /\ ok_since_reset = 0 /\ cleaned_up = FALSE

IdleSpaghetti ==
    /\ stack = <<>> /\ exc = FALSE /\ retval = "none"
    /\ tfpc = "off" /\ results = <<>> /\ base_depth = 0 /\ normal_returns = 0

IdleTiming ==
    /\ user_password = <<>>
    /\ stored_password = [r \in Runs |-> <<>>]
    /\ pw_pc = [r \in Runs |-> "off"]
    /\ pw_i = [r \in Runs |-> 0]
    /\ pw_steps = [r \in Runs |-> 0]
    /\ pw_result = [r \in Runs |-> "none"]

IdleBank ==
    /\ balance = [a \in Accounts |-> StartBalance]
    /\ acct_lock = [a \in Accounts |-> "free"]
    /\ bpc = [t \in Transferrers |-> "off"]
    /\ bamount = [t \in Transferrers |-> 0]
    /\ biter = [t \in Transferrers |-> 0]
    /\ bret = [t \in Transferrers |-> "none"]

IdleFinancial ==
    /\ balance_tracker = [q \in {} |-> 0]
    /\ transaction_log = <<>>
    /\ tf_result = [status |-> "off"]
    /\ tf_calls = 0

IdleEnrich ==
    /\ db_users = {} /\ db_profile = [u \in UserIds |-> "none"]
    /\ PROCESSED_IDS = <<>> /\ FAILED_TASKS = <<>> /\ CACHE_DATA = {}
    /\ epc = "off" /\ e_user_id = 0 /\ e_profile = "none" /\ e_enriched = FALSE
    /\ e_status = "none" /\ e_calls = 0 /\ processed_at_call = <<>>

\* every variable outside dlvars
notDeadlock == <<crvars, lkvars, rcvars, dcvars, rmvars, gcvars, spvars,
    pwvars, bkvars, fsvars, euvars>>
\* every variable outside crvars
notCredit == <<dlvars, lkvars, rcvars, dcvars, rmvars, gcvars, spvars,
    pwvars, bkvars, fsvars, euvars>>
\* every variable outside lkvars
notLeak == <<dlvars, crvars, rcvars, dcvars, rmvars, gcvars, spvars,
    pwvars, bkvars, fsvars, euvars>>
\* every variable outside rcvars
notRace == <<dlvars, crvars, lkvars, dcvars, rmvars, gcvars, spvars,
    pwvars, bkvars, fsvars, euvars>>
\* every variable outside dcvars
notDiscount == <<dlvars, crvars, lkvars, rcvars, rmvars, gcvars, spvars,
    pwvars, bkvars, fsvars, euvars>>
\* every variable outside rmvars
notManager == <<dlvars, crvars, lkvars, rcvars, dcvars, gcvars, spvars,
    pwvars, bkvars, fsvars, euvars>>
\* every variable outside gcvars
notCritical == <<dlvars, crvars, lkvars, rcvars, dcvars, rmvars, spvars,
    pwvars, bkvars, fsvars, euvars>>
\* every variable outside spvars
notSpaghetti == <<dlvars, crvars, lkvars, rcvars, dcvars, rmvars, gcvars,
    pwvars, bkvars, fsvars, euvars>>
\* every variable outside pwvars
notTiming == <<dlvars, crvars, lkvars, rcvars, dcvars, rmvars, gcvars,
    spvars, bkvars, fsvars, euvars>>
\* every variable outside bkvars
notBank == <<dlvars, crvars, lkvars, rcvars, dcvars, rmvars, gcvars,
    spvars, pwvars, fsvars, euvars>>
\* every variable outside fsvars
notFinancial == <<dlvars, crvars, lkvars, rcvars, dcvars, rmvars, gcvars,
    spvars, pwvars, bkvars, euvars>>
\* every variable outside euvars
notEnrich == <<dlvars, crvars, lkvars, rcvars, dcvars, rmvars, gcvars,
    spvars, pwvars, bkvars, fsvars>>

DeadlockInit ==
    /\ InitDeadlock
    /\ IdleCredit /\ IdleLeak /\ IdleRace /\ IdleDiscount /\ IdleManager /\ IdleCritical
    /\ IdleSpaghetti /\ IdleTiming /\ IdleBank /\ IdleFinancial /\ IdleEnrich
DeadlockNext ==
    \/ thread_1_function /\ UNCHANGED notDeadlock
    \/ thread_2_function /\ UNCHANGED notDeadlock
    \/ create_deadlock /\ UNCHANGED notDeadlock
SpecDeadlock == DeadlockInit /\ [][DeadlockNext]_vars

CreditInit ==
    /\ InitCredit
    /\ IdleDeadlock /\ IdleLeak /\ IdleRace /\ IdleDiscount /\ IdleManager /\ IdleCritical
    /\ IdleSpaghetti /\ IdleTiming /\ IdleBank /\ IdleFinancial /\ IdleEnrich
CreditNext ==
    \/ \E c \in Calls : CallUseCredit(c) /\ UNCHANGED notCredit
    \/ \E c \in Calls : use_credit(c) /\ UNCHANGED notCredit
SpecCredit == CreditInit /\ [][CreditNext]_vars

LeakInit ==
    /\ InitLeak
    /\ IdleDeadlock /\ IdleCredit /\ IdleRace /\ IdleDiscount /\ IdleManager /\ IdleCritical
    /\ IdleSpaghetti /\ IdleTiming /\ IdleBank /\ IdleFinancial /\ IdleEnrich
LeakNext ==
    \/ CallLeaky /\ UNCHANGED notLeak
    \/ leaky_function /\ UNCHANGED notLeak
SpecLeak == LeakInit /\ [][LeakNext]_vars

RaceInit ==
    /\ InitRace
    /\ IdleDeadlock /\ IdleCredit /\ IdleLeak /\ IdleDiscount /\ IdleManager /\ IdleCritical
    /\ IdleSpaghetti /\ IdleTiming /\ IdleBank /\ IdleFinancial /\ IdleEnrich
RaceNext ==
    \/ \E t \in Appenders : append_to_list(t) /\ UNCHANGED notRace
    \/ test_race_condition /\ UNCHANGED notRace
SpecRace == RaceInit /\ [][RaceNext]_vars

DiscountInit ==
    /\ InitDiscount
    /\ IdleDeadlock /\ IdleCredit /\ IdleLeak /\ IdleRace /\ IdleManager /\ IdleCritical
    /\ IdleSpaghetti /\ IdleTiming /\ IdleBank /\ IdleFinancial /\ IdleEnrich
DiscountNext ==
    \/ calculate_discount /\ UNCHANGED notDiscount
SpecDiscount == DiscountInit /\ [][DiscountNext]_vars

ManagerInit ==
    /\ InitManager
    /\ IdleDeadlock /\ IdleCredit /\ IdleLeak /\ IdleRace /\ IdleDiscount /\ IdleCritical
    /\ IdleSpaghetti /\ IdleTiming /\ IdleBank /\ IdleFinancial /\ IdleEnrich
ManagerNext ==
    \/ \E t \in Workers : CallBatch(t) /\ UNCHANGED notManager
    \/ \E t \in Workers : process_file_batch_a(t) /\ UNCHANGED notManager
    \/ \E t \in Workers : process_file_batch_b(t) /\ UNCHANGED notManager
SpecManager == ManagerInit /\ [][ManagerNext]_vars

CriticalInit ==
    /\ InitCritical
    /\ IdleDeadlock /\ IdleCredit /\ IdleLeak /\ IdleRace /\ IdleDiscount /\ IdleManager
    /\ IdleSpaghetti /\ IdleTiming /\ IdleBank /\ IdleFinancial /\ IdleEnrich
CriticalNext ==
    \/ an_important_function /\ UNCHANGED notCritical
    \/ get_critical_config /\ UNCHANGED notCritical
    \/ set_critical_config /\ UNCHANGED notCritical
    \/ critical_initialization /\ UNCHANGED notCritical
    \/ critical_validation /\ UNCHANGED notCritical
    \/ critical_transformation /\ UNCHANGED notCritical
    \/ critical_cleanup /\ UNCHANGED notCritical
SpecCritical == CriticalInit /\ [][CriticalNext]_vars

SpaghettiInit ==
    /\ InitSpaghetti
    /\ IdleDeadlock /\ IdleCredit /\ IdleLeak /\ IdleRace /\ IdleDiscount /\ IdleManager
    /\ IdleCritical /\ IdleTiming /\ IdleBank /\ IdleFinancial /\ IdleEnrich
SpaghettiNext ==
    \/ function_a /\ UNCHANGED notSpaghetti
    \/ function_b /\ UNCHANGED notSpaghetti
    \/ function_c /\ UNCHANGED notSpaghetti
    \/ LeaveFrame /\ UNCHANGED notSpaghetti
    \/ test_functions /\ UNCHANGED notSpaghetti
SpecSpaghetti == SpaghettiInit /\ [][SpaghettiNext]_vars

TimingInit ==
    /\ InitTiming
    /\ IdleDeadlock /\ IdleCredit /\ IdleLeak /\ IdleRace /\ IdleDiscount /\ IdleManager
    /\ IdleCritical /\ IdleSpaghetti /\ IdleBank /\ IdleFinancial /\ IdleEnrich
TimingNext ==
    \/ \E r \in Runs : PwCall(r) /\ UNCHANGED notTiming
    \/ \E r \in Runs : timing_attack_vulnerable(r) /\ UNCHANGED notTiming
SpecTiming == TimingInit /\ [][TimingNext]_vars

BankInit ==
    /\ InitBank
    /\ IdleDeadlock /\ IdleCredit /\ IdleLeak /\ IdleRace /\ IdleDiscount /\ IdleManager
    /\ IdleCritical /\ IdleSpaghetti /\ IdleTiming /\ IdleFinancial /\ IdleEnrich
BankNext ==
    \/ \E t \in Transferrers : CallTransfer(t) /\ UNCHANGED notBank
    \/ \E t \in Transferrers : transfer_to(t) /\ UNCHANGED notBank
SpecBank == BankInit /\ [][BankNext]_vars

FinancialInit ==
    /\ InitFinancial
    /\ IdleDeadlock /\ IdleCredit /\ IdleLeak /\ IdleRace /\ IdleDiscount /\ IdleManager
    /\ IdleCritical /\ IdleSpaghetti /\ IdleTiming /\ IdleBank /\ IdleEnrich
FinancialNext ==
    \/ transfer_funds /\ UNCHANGED notFinancial
SpecFinancial == FinancialInit /\ [][FinancialNext]_vars

EnrichInit ==
    /\ InitEnrich
    /\ IdleDeadlock /\ IdleCredit /\ IdleLeak /\ IdleRace /\ IdleDiscount /\ IdleManager
    /\ IdleCritical /\ IdleSpaghetti /\ IdleTiming /\ IdleBank /\ IdleFinancial
EnrichNext ==
    \/ CallEnrich /\ UNCHANGED notEnrich
    \/ enrich_user_data /\ UNCHANGED notEnrich
SpecEnrich == EnrichInit /\ [][EnrichNext]_vars

(***************************************************************************)
(*                               Claims                                    *)
(***************************************************************************)

\* C2: once Thread 1 holds lock_a and waits for lock_b while Thread 2 holds
\* lock_b and waits for lock_a, every later state is that same state of the
\* two threads: neither acquires its second lock, neither completes.
Deadlocked ==
    /\ lock_a = T1 /\ tpc[T1] = "wait_second"
    /\ lock_b = T2 /\ tpc[T2] = "wait_second"
C2_DeadlockIsPermanent == [][Deadlocked => Deadlocked']_vars
\* the circular wait is reached
C2_Witness == Deadlocked

\* C3: with two concurrent calls a negative balance comes from more than one
\* call returning True on a balance that was positive: when all calls have
\* returned, n of them True, the balance is credits0 - k for some k between
\* 1 and n (or it is unchanged and n = 0), and n > 0 only with credits0 > 0.
AllReturned == \A c \in Calls : cpc[c] = "done"
Granted == {c \in Calls : cret[c] = "True"}
C3_CreditRaceOutcome ==
    AllReturned =>
        LET n == Cardinality(Granted)
            k == credits0 - USER_CREDITS["test_user"]
        IN /\ (n = 0 => k = 0)
           /\ (n > 0 => k >= 1 /\ k <= n /\ credits0 > 0)
           /\ \A c \in Calls : cret[c] \in {"True", "False"}
\* one credit, two calls: both passed the check, both decremented, both
\* returned True and the balance ended negative
C3_Witness ==
    /\ credits0 = 1
    /\ AllReturned
    /\ \A c \in Calls : carg[c] = "test_user" /\ cret[c] = "True"
    /\ USER_CREDITS["test_user"] < 0

\* C4: leaky_function returns with its handle still open exactly when it
\* returns through the early-return branch, which it takes exactly when
\* `condition` is true; returning through the other branch the handle is closed.
Returned == fpc = "idle" /\ fexit \in {"early_return", "return"}
C4_LeakOnEarlyReturnOnly ==
    Returned =>
        /\ fhandle \in 1..Len(handles)
        /\ handles[fhandle].open <=> (fexit = "early_return")
        /\ (fexit = "early_return") <=> condition
\* a call has returned early and its handle is open
C4_Witness ==
    /\ Returned /\ fexit = "early_return"
    /\ fhandle \in 1..Len(handles) /\ handles[fhandle].open


\* C16: after all N threads have been joined the list holds exactly N
\* elements and they are pairwise distinct.
AllJoined == rmain \in {"assert_length", "assert_unique", "passed", "failed"}
C16_ExactlyNDistinct ==
    AllJoined =>
        /\ Len(shared_list) = NumThreads
        /\ \A i, j \in 1..Len(shared_list) : i # j => shared_list[i] # shared_list[j]

\* C17: under the documented precondition (price > 0, 0 <= discount_percent
\* <= 100) the result r of calculate_discount satisfies 0 <= r <= price.
Precondition == FLt(Fin(0), price) /\ discount_percent \in 0..100
C17_Postcondition ==
    (dpc = "returned" /\ Precondition) =>
        FLe(Fin(0), dresult) /\ FLe(dresult, price)

\* C18: once resource_lock is held it stays held, and a call waiting at
\* acquire() keeps waiting there, whichever thread makes it.
C18_LockNeverReleased ==
    [][resource_lock =>
          /\ resource_lock'
          /\ \A t \in Workers : mth[t].pc = "acquire" => mth'[t].pc = "acquire"]_vars
\* one thread's call has returned or raised, and that same thread and the
\* other one are both blocked in a later call
C18_Witness ==
    /\ resource_lock
    /\ \E t \in Workers : mth[t].calls > 0 /\ mth[t].pc = "acquire"
    /\ \A t \in Workers : mth[t].pc = "acquire"

\* C19: between two cleanups every call of an_important_function adds one to
\* GLOBAL_COUNTER, the first CallLimit calls return and all later ones raise
\* RuntimeError: at most CallLimit calls return.
FewerOf(a, b) == IF a < b THEN a ELSE b
C19_AtMostLimitReturns ==
    /\ GLOBAL_COUNTER = calls_since_reset
    /\ ok_since_reset = FewerOf(calls_since_reset, CallLimit)
    /\ (gout.fn = "an_important_function" /\ GLOBAL_COUNTER > CallLimit)
          => gout.res = "RuntimeError"
    /\ (gout.fn = "an_important_function" /\ GLOBAL_COUNTER <= CallLimit)
          => gout.res = "ok"
\* the counter has passed the limit and the call raised
C19_Witness ==
    /\ GLOBAL_COUNTER > CallLimit + 1
    /\ gout = Outcome("an_important_function", "RuntimeError")
    /\ ok_since_reset = CallLimit

\* C20: no call of function_a, function_b or function_c returns a value,
\* and test_functions returns the three "failed" entries in order.
AllFailed == <<"function_a failed", "function_b failed", "function_c failed">>
C20_AllThreeFail ==
    /\ normal_returns = 0
    /\ retval = "none"
    /\ tfpc = "returned" => results = AllFailed
\* test_functions has returned its three entries
C20_Witness == tfpc = "returned" /\ Len(results) = 3 /\ ~exc

\* C21: timing_attack_vulnerable returns True exactly when the two strings are
\* equal; and for one user_password, two stored passwords of its length that
\* first differ from it at different positions make the two runs perform
\* different numbers of character comparisons.
FirstDiff(u, s) ==     \* first position where u and s differ, 0 when none
    LET diffs == {i \in 1..Len(u) : u[i] # s[i]}
    IN IF diffs = {} THEN 0 ELSE CHOOSE i \in diffs : \A j \in diffs : i <= j
BothRunsReturned == \A r \in Runs : pw_pc[r] = "returned"
SameLengthDifferentFirstDiff ==
    /\ \A r \in Runs : Len(stored_password[r]) = Len(user_password)
    /\ \A r \in Runs : FirstDiff(user_password, stored_password[r]) >= 1
    /\ FirstDiff(user_password, stored_password[1])
         # FirstDiff(user_password, stored_password[2])
C21_EqualityButStepsLeak ==
    /\ \A r \in Runs : pw_pc[r] = "returned" =>
          (pw_result[r] = "True" <=> user_password = stored_password[r])
    /\ (BothRunsReturned /\ SameLengthDifferentFirstDiff) =>
          pw_steps[1] # pw_steps[2]
\* both runs returned False for the same user_password against two secrets of
\* its length, after different numbers of comparisons
C21_Witness ==
    /\ BothRunsReturned /\ SameLengthDifferentFirstDiff
    /\ \A r \in Runs : pw_result[r] = "False"
    /\ pw_steps[1] # pw_steps[2]

\* C22: under every interleaving of the two transfer_to threads, whenever no
\* thread holds both account locks the balances sum to the initial sum, also
\* after a transfer was refused for insufficient balance.
HoldsBoth(t) == acct_lock[Self(t)] = t /\ acct_lock[Other(t)] = t
C22_MoneyConserved ==
    (~ \E t \in Transferrers : HoldsBoth(t)) =>
        balance["A"] + balance["B"] = 2 * StartBalance
\* one transfer went through, one was refused, money has moved and nobody
\* is in the doubly locked section
C22_Witness ==
    /\ ~ \E t \in Transferrers : HoldsBoth(t)
    /\ \E t, u \in Transferrers : bret[t] = "True" /\ bret[u] = "False"
    /\ balance["A"] # StartBalance

\* C23: after any sequence of transfer_funds calls every balance stored in
\* balance_tracker is greater than or equal to 0.
C23_BalancesNonNegative ==
    \A a \in DOMAIN balance_tracker : balance_tracker[a] >= 0

\* C24: an invocation of enrich_user_data that returns a status other than
\* "success" leaves PROCESSED_IDS as it was when the invocation started.
C24_ProcessedOnlyOnSuccess ==
    (epc = "returned" /\ e_status # "success") =>
        PROCESSED_IDS = processed_at_call

\* C25: from critical_cleanup until the next critical_initialization, every
\* call of critical_validation raises RuntimeError, whatever else was called.
C25_ValidationRaisesUntilInit ==
    (cleaned_up /\ gout.fn = "critical_validation") => gout.res = "RuntimeError"

====
